---- MODULE Spec2Model ----
(***************************************************************************)
(* ConnectionManager of civ7_terminal/connection.py as a state machine.    *)
(*                                                                         *)
(* The manager runs on one asyncio event loop: every action below is the   *)
(* code a task executes between two suspension points (await), so the      *)
(* interleavings of the model are the interleavings of the tasks.          *)
(* Tasks: the callers of send_command, the caller of start()/stop(), the   *)
(* connection task (_connection_loop), the sender task (_sender_loop) and  *)
(* the receiver task (_receiver_loop); the remote endpoint and the timers  *)
(* are the environment.                                                    *)
(***************************************************************************)
EXTENDS Naturals, Sequences, FiniteSets, TLC

\* ------------------------------------------------------------------ bounds
\* send_command calls made in one behaviour of Spec
MaxCalls == 1
\* send_command calls made in one behaviour of SpecRun
RunCalls == 2
\* send_command calls made in one behaviour of SpecDedup
DedupCalls == 1
\* send_command calls made in one behaviour of SpecLive
LiveCalls == 1
\* environment failures are injected only while the repeat counter is below
MaxErrCount == 2
MaxCmdLen == 2
MaxStrLen == 2
MaxPayloadLen == 3
MaxInputLen == 4

\* --------------------------------------------------------------- constants
\* ConnectionConfig defaults
initial_retry_delay == 2
max_retry_delay == 30
retry_backoff_multiplier == 2

DefaultConfig ==
    [initial |-> initial_retry_delay,
     max     |-> max_retry_delay,
     mult    |-> retry_backoff_multiplier]

\* a ConnectionConfig with a short backoff (1, 2, 2, ...)
ShortConfig == [initial |-> 1, max |-> 2, mult |-> 2]

\* ConnectionState
DISCONNECTED == "Disconnected"
CONNECTING == "Connecting"
CONNECTED == "Connected"
ConnectionState == {DISCONNECTED, CONNECTING, CONNECTED}

\* the error messages the manager builds
MsgTimeout == "Command timed out waiting for response"
MsgConnTimedOut == "Connection failed: Connection timed out"
MsgConnRefused == "Connection failed: Failed to connect: refused"
MsgSend == "Send error: reset"
MsgProtocol == "Protocol error: bad frame"
MsgConnErrSend == "Connection error: reset"
MsgConnErrProtocol == "Connection error: bad frame"
MsgConnFailedSend == "Connection failed: reset"

NoMsg == "None"

VARIABLES
    config,             \* self.config (fixed at construction)
    budget,             \* number of send_command calls of this behaviour
    state,              \* self._state
    writer,             \* self._writer / self._reader: "none" or "open"
    command_queue,      \* self._command_queue: commands, by call
    pending_responses,  \* self._pending_responses: futures, by call
    calls,              \* per send_command call: its future and its outcome
    ncalls,             \* number of send_command calls made so far
    retry_delay,        \* self._retry_delay
    shutdown_event,     \* self._shutdown_event.is_set()
    connection_task,    \* self._connection_task and where its coroutine stands
    sender_task,        \* self._sender_task: none, running, cancelling (cancel
                        \* requested, not yet ended), dropping (cancel requested
                        \* and about to be dropped), done, cancelled, failed
    receiver_task,      \* self._receiver_task
    stop_pc,            \* where a stop() call in progress stands
    last_error_msg,     \* self._last_error_msg
    error_count,        \* self._error_count
    cb_error,           \* last on_error invocation
    cb_state,           \* last on_state_change invocation
    responses,          \* on_response invocations, in order
    wire,               \* commands written to the open socket, not yet answered
    sent,               \* every command frame written to a socket, in order
    obs,                \* observer of the notifications (history)
    codec,              \* the last call of a function of protocol.py
    app                 \* the last input submitted to the terminal app

vars == <<config, budget, state, writer, command_queue, pending_responses,
          calls, ncalls, retry_delay, shutdown_event, connection_task,
          sender_task, receiver_task, stop_pc, last_error_msg, error_count,
          cb_error, cb_state, responses, wire, sent, obs, codec, app>>

Min(a, b) == IF a <= b THEN a ELSE b

Range(q) == {q[i] : i \in DOMAIN q}

\* ------------------------------------------------------------- protocol.py
\* Strings are sequences of code points, bytes objects sequences of numbers
\* below 256. A result is a record whose err field tells whether the call
\* raised ProtocolError.
MESSAGE_TYPE == 3
HEADER_SIZE == 8

\* CMD_PREFIX = "CMD:65535:"
CMD_PREFIX == <<67, 77, 68, 58, 54, 53, 53, 51, 53, 58>>

ProtocolError == [err |-> TRUE]

\* a lone surrogate code point, which str.encode("utf-8") rejects
IsSurrogate(cp) == cp >= 55296 /\ cp <= 57343

\* str.encode("utf-8") of one code point that is no surrogate
Utf8Char(cp) ==
    IF cp < 128 THEN <<cp>>
    ELSE IF cp < 2048 THEN <<192 + (cp \div 64), 128 + (cp % 64)>>
    ELSE IF cp < 65536
         THEN <<224 + (cp \div 4096), 128 + ((cp \div 64) % 64), 128 + (cp % 64)>>
         ELSE <<240 + (cp \div 262144), 128 + ((cp \div 4096) % 64),
                128 + ((cp \div 64) % 64), 128 + (cp % 64)>>

RECURSIVE Utf8Encode(_)
Utf8Encode(str) ==
    IF str = <<>> THEN <<>> ELSE Utf8Char(Head(str)) \o Utf8Encode(Tail(str))

\* one unsigned 32-bit field of struct.pack("<II", ...): least significant
\* byte first
PackLE32(n) ==
    <<n % 256, (n \div 256) % 256, (n \div 65536) % 256, (n \div 16777216) % 256>>

\* one unsigned 32-bit field of struct.unpack("<II", ...)
UnpackLE32(b) == b[1] + 256 * b[2] + 65536 * b[3] + 16777216 * b[4]

\* lines 44-55. (struct.pack also fails on a payload of 2^32 bytes or more,
\* far above the lengths of the model.)
encode_command(javascript) ==
    LET payload == CMD_PREFIX \o javascript \o <<0>> IN
    IF \E i \in DOMAIN payload : IsSurrogate(payload[i])
    THEN ProtocolError
    ELSE LET payload_bytes == Utf8Encode(payload)
             length == Len(payload_bytes)
         IN  [err |-> FALSE,
              bytes |-> PackLE32(length) \o PackLE32(MESSAGE_TYPE) \o payload_bytes]

\* decode_header that fills a short input up with zero bytes
decode_header_padded(data) ==
    LET d == data \o <<0, 0, 0, 0, 0, 0, 0, 0>> IN
    [err |-> FALSE, length |-> UnpackLE32(SubSeq(d, 1, 4)),
     msg_type |-> UnpackLE32(SubSeq(d, 5, 8))]

\* lines 71-78
decode_header(data) ==
    IF Len(data) < HEADER_SIZE
    THEN ProtocolError
    ELSE [err |-> FALSE, length |-> UnpackLE32(SubSeq(data, 1, 4)),
          msg_type |-> UnpackLE32(SubSeq(data, 5, HEADER_SIZE))]

\* bytes.decode("utf-8"), strict: the shortest form only, no surrogate, no
\* code point above 0x10FFFF
RECURSIVE Utf8Decode(_)
Utf8Decode(b) ==
    IF b = <<>>
    THEN [err |-> FALSE, str |-> <<>>]
    ELSE LET n == IF b[1] < 128 THEN 1
                  ELSE IF b[1] < 194 THEN 0
                  ELSE IF b[1] < 224 THEN 2
                  ELSE IF b[1] < 240 THEN 3
                  ELSE IF b[1] < 245 THEN 4
                  ELSE 0
         IN  IF n = 0 \/ Len(b) < n \/ (\E i \in 2..n : b[i] < 128 \/ b[i] > 191)
             THEN [err |-> TRUE]
             ELSE LET cp == IF n = 1 THEN b[1]
                            ELSE IF n = 2 THEN (b[1] - 192) * 64 + (b[2] - 128)
                            ELSE IF n = 3
                                 THEN (b[1] - 224) * 4096 + (b[2] - 128) * 64
                                          + (b[3] - 128)
                                 ELSE (b[1] - 240) * 262144 + (b[2] - 128) * 4096
                                          + (b[3] - 128) * 64 + (b[4] - 128)
                      rest == Utf8Decode(SubSeq(b, n + 1, Len(b)))
                  IN  IF \/ (n = 3 /\ (cp < 2048 \/ IsSurrogate(cp)))
                         \/ (n = 4 /\ (cp < 65536 \/ cp > 1114111))
                         \/ rest.err
                      THEN [err |-> TRUE]
                      ELSE [err |-> FALSE, str |-> <<cp>> \o rest.str]

\* decode_payload that strips every trailing NUL (rstrip)
RECURSIVE decode_payload_rstrip(_)
decode_payload_rstrip(data) ==
    IF data # <<>> /\ data[Len(data)] = 0
    THEN decode_payload_rstrip(SubSeq(data, 1, Len(data) - 1))
    ELSE LET r == Utf8Decode(data) IN
         IF r.err THEN ProtocolError ELSE [err |-> FALSE, str |-> r.str]

\* lines 94-100
decode_payload(data) ==
    LET r == Utf8Decode(IF data # <<>> /\ data[Len(data)] = 0
                        THEN SubSeq(data, 1, Len(data) - 1)
                        ELSE data)
    IN  IF r.err THEN ProtocolError ELSE [err |-> FALSE, str |-> r.str]

\* decode_message without the test of lines 119-120
decode_message_unchecked(header, payload) ==
    LET h == decode_header(header) IN
    IF h.err
    THEN ProtocolError
    ELSE LET p == decode_payload(payload) IN
         IF p.err THEN ProtocolError
         ELSE [err |-> FALSE, msg_type |-> h.msg_type, payload |-> p.str]

\* lines 117-123
decode_message(header, payload) ==
    LET h == decode_header(header) IN
    IF h.err
    THEN ProtocolError
    ELSE IF Len(payload) # h.length
         THEN ProtocolError
         ELSE LET p == decode_payload(payload) IN
              IF p.err THEN ProtocolError
              ELSE [err |-> FALSE, msg_type |-> h.msg_type, payload |-> p.str]

\* the last call: the function, where its arguments came from ("input", or
\* "frame" for the parts of the frame encode_command made of javascript),
\* the arguments and the result
CodecCall(op, of, javascript, header, payload, out) ==
    [op |-> op, of |-> of, javascript |-> javascript, header |-> header,
     payload |-> payload, out |-> out]

NoCall == CodecCall("none", "", <<>>, <<>>, <<>>, [err |-> FALSE])

\* ------------------------------------------------------------------ app.py
\* str.split("\n")
RECURSIVE SplitLines(_)
SplitLines(str) ==
    IF \A i \in DOMAIN str : str[i] # 10
    THEN <<str>>
    ELSE LET i == CHOOSE k \in DOMAIN str :
                    str[k] = 10 /\ \A j \in 1..(k - 1) : str[j] # 10
         IN  <<SubSeq(str, 1, i - 1)>> \o SplitLines(SubSeq(str, i + 1, Len(str)))

\* "\n".join(lines)
RECURSIVE JoinLines(_)
JoinLines(lines) ==
    IF lines = <<>> THEN <<>>
    ELSE IF Len(lines) = 1 THEN lines[1]
    ELSE lines[1] \o <<10>> \o JoinLines(Tail(lines))

\* str.startswith
StartsWith(str, prefix) ==
    Len(str) >= Len(prefix) /\ SubSeq(str, 1, Len(prefix)) = prefix

\* str.isspace and str.strip, as the app's lines need them
AppIsSpace(ch) == ch \in {9, 10, 11, 12, 13, 28, 29, 30, 31, 32, 133, 160}

RECURSIVE AppLStrip(_)
AppLStrip(str) ==
    IF str # <<>> /\ AppIsSpace(Head(str)) THEN AppLStrip(Tail(str)) ELSE str

RECURSIVE AppRStrip(_)
AppRStrip(str) ==
    IF str # <<>> /\ AppIsSpace(str[Len(str)])
    THEN AppRStrip(SubSeq(str, 1, Len(str) - 1))
    ELSE str

AppStrip(str) == AppRStrip(AppLStrip(str))

\* lines 675-677: the line starts, after its blanks, with "//" or "#"
IsCommentLine(line) ==
    \/ StartsWith(AppStrip(line), <<47, 47>>)
    \/ StartsWith(AppStrip(line), <<35>>)

\* lines 674-681: the comment lines, which are echoed, and the others
RECURSIVE CommentLines(_)
CommentLines(lines) ==
    IF lines = <<>> THEN <<>>
    ELSE (IF IsCommentLine(Head(lines)) THEN <<Head(lines)>> ELSE <<>>)
            \o CommentLines(Tail(lines))

RECURSIVE CodeLines(_)
CodeLines(lines) ==
    IF lines = <<>> THEN <<>>
    ELSE (IF IsCommentLine(Head(lines)) THEN <<>> ELSE <<Head(lines)>>)
            \o CodeLines(Tail(lines))

\* what a submitted input leads to: the texts echoed by session.add_command
\* and the text passed to ConnectionManager.send_command, if any
Submitted(value, echoed, sends, text) ==
    [op |-> "submitted", value |-> value, echoed |-> echoed, sends |-> sends,
     text |-> text]

NoSubmit == [op |-> "none", value |-> <<>>, echoed |-> <<>>, sends |-> FALSE,
             text |-> <<>>]

\* lines 660-695, with an active session and a connection manager: the
\* comment lines are echoed, the other lines are joined and echoed, and
\* line 695 passes `command` to send_command
app_send_command(value, command) ==
    LET lines == SplitLines(command)
        code_to_send == AppStrip(JoinLines(CodeLines(lines)))
    IN  IF code_to_send = <<>>
        THEN Submitted(value, CommentLines(lines), FALSE, <<>>)
        ELSE Submitted(value, CommentLines(lines) \o <<code_to_send>>, TRUE, command)

\* lines 638-658: the input is stripped; an empty input does nothing and a
\* first line that starts with one "/" is a built-in command
on_command_input_submitted(value) ==
    LET command == AppStrip(value)
        first_line == AppStrip(SplitLines(command)[1])
    IN  IF command = <<>>
        THEN Submitted(value, <<>>, FALSE, <<>>)
        ELSE IF StartsWith(first_line, <<47>>) /\ ~StartsWith(first_line, <<47, 47>>)
             THEN Submitted(value, <<>>, FALSE, <<>>)
             ELSE app_send_command(value, command)

\* ----------------------------------------------------------- notifications
\* cb_error and cb_state hold the callback invocation of the last step, if
\* it made one
NoErrorCb == [text |-> <<>>, is_repeat |-> FALSE]
NoStateCb == [state |-> "", has_countdown |-> FALSE, countdown |-> 0]

\* the observer's cap on the run length it counts
RunCap == MaxErrCount + 1

\* on_error as a collaborator sees it: the run of consecutive notifications
\* with one message (run, counted to RunCap) and the same run cut at every
\* entry into Connected (runc); it is switched on by the specification
Observe(o, message) ==
    IF o.on = "errors"
    THEN [o EXCEPT !.msg = message,
                   !.run = IF message = o.msg THEN Min(o.run + 1, RunCap) ELSE 1,
                   !.runc = IF message = o.msg /\ o.runc > 0 THEN o.runc + 1 ELSE 1]
    ELSE o

\* the observer's cap on the backoff waits it counts
WaitCap == 5

\* the backoff as a collaborator sees it: the number of backoff waits that
\* ended (by their last tick or by the shutdown event) since the last
\* successful connect, counted to WaitCap
ObserveWait(o) ==
    IF o.on = "waits" THEN [o EXCEPT !.waits = Min(o.waits + 1, WaitCap)] ELSE o

\* start() as a collaborator sees it: whether it has been called while the
\* manager held a connection task
ObserveStart(o) ==
    IF o.on = "starts" THEN [o EXCEPT !.again = TRUE] ELSE o

\* send_command as its caller sees it: what a call with a blank command
\* has returned
ObserveBlank(o) ==
    IF o.on = "blanks" THEN [o EXCEPT !.blank = "none"] ELSE o

\* the text _notify_error passes on a repeat: f"{message} (x{count})"
RepeatText(message, n) == <<message, " (x", n, ")">>

\* notify_error that formats the repeat before it increments the counter
notify_error_stale_count(d, message) ==
    IF message = d.last
    THEN [last  |-> d.last,
          count |-> d.count + 1,
          cb    |-> [text |-> RepeatText(message, d.count), is_repeat |-> TRUE],
          obs   |-> Observe(d.obs, message)]
    ELSE [last  |-> message,
          count |-> 1,
          cb    |-> [text |-> <<message>>, is_repeat |-> FALSE],
          obs   |-> Observe(d.obs, message)]

\* _notify_error on the dedup state d = [last, count, cb, obs]
notify_error(d, message) ==
    IF message = d.last
    THEN [last  |-> d.last,
          count |-> d.count + 1,
          cb    |-> [text |-> RepeatText(message, d.count + 1), is_repeat |-> TRUE],
          obs   |-> Observe(d.obs, message)]
    ELSE [last  |-> message,
          count |-> 1,
          cb    |-> [text |-> <<message>>, is_repeat |-> FALSE],
          obs   |-> Observe(d.obs, message)]

\* the dedup state a step starts from; cb is the step's on_error invocation
Dedup == [last |-> last_error_msg, count |-> error_count, cb |-> NoErrorCb, obs |-> obs]

SetDedup(d) ==
    /\ last_error_msg' = d.last
    /\ error_count' = d.count
    /\ cb_error' = d.cb
    /\ obs' = d.obs

\* ResetDedup without lines 188-189: the last message and the counter stay
ResetDedup_keeps_last(d) ==
    [d EXCEPT !.obs.runc = 0, !.obs.waits = 0]

\* lines 187-189: the reset on a successful connect
ResetDedup(d) ==
    [d EXCEPT !.last = NoMsg, !.count = 0, !.obs.runc = 0, !.obs.waits = 0]

\* _set_state passing no countdown on
StateCb_no_countdown(s, has, cd) == [state |-> s, has_countdown |-> FALSE, countdown |-> 0]

\* the arguments of on_state_change
StateCb(s, has, cd) == [state |-> s, has_countdown |-> has, countdown |-> cd]

\* --------------------------------------------------------------- the calls
\* fut: the state of the call's future; val: its result; ret: what the call
\* returned; errors: the error notifications the call itself made.
\* History: why the future was cancelled; expect: while the future is
\* pending, the number of the inbound frame that is due to it (frames are
\* numbered as they arrive); fifo: whether it was resolved by that frame;
\* stranded: a stop() call ended while the future was pending, and the
\* future has since been neither resolved nor failed by a close; heard:
\* on_response had been invoked with the payload when the future got it.
NewCall ==
    [fut |-> "none", val |-> 0, ret |-> "idle", why |-> "", expect |-> 0,
     fifo |-> "", errors |-> 0, stranded |-> FALSE, heard |-> FALSE]

FutureDone(c) == calls[c].fut \in {"result", "cancelled"}

\* lines 259-265: every future still in the queue is popped, and cancelled
\* unless done; the caller's wait raises CancelledError and it returns None
FailPending(cs, q) ==
    [c \in DOMAIN cs |->
        IF c \in Range(q) /\ cs[c].fut = "pending"
        THEN [cs[c] EXCEPT !.fut = "cancelled", !.why = "closed", !.ret = "none",
                          !.expect = 0, !.stranded = FALSE]
        ELSE cs[c]]

\* the calls still outstanding when a stop() call ends
MarkStranded(cs) ==
    [c \in DOMAIN cs |->
        IF cs[c].fut = "pending" THEN [cs[c] EXCEPT !.stranded = TRUE] ELSE cs[c]]

\* the payload the remote sends in answer to command c
Resp(c) == c

TaskDone(t) == t \in {"done", "cancelled", "failed"}

ConnTask(pc, remaining, done) == [pc |-> pc, remaining |-> remaining, done |-> done]

ConnTerminal == connection_task.pc \in {"none", "finished", "cancelled"}

Init0(cfg, n, observe) ==
    /\ config = cfg
    /\ budget = n
    /\ state = DISCONNECTED
    /\ writer = "none"
    /\ command_queue = <<>>
    /\ pending_responses = <<>>
    /\ calls = [c \in 1..n |-> NewCall]
    /\ ncalls = 0
    /\ retry_delay = cfg.initial
    /\ shutdown_event = FALSE
    /\ connection_task = ConnTask("none", 0, <<>>)
    /\ sender_task = "none"
    /\ receiver_task = "none"
    /\ stop_pc = "idle"
    /\ last_error_msg = NoMsg
    /\ error_count = 0
    /\ cb_error = NoErrorCb
    /\ cb_state = NoStateCb
    /\ responses = <<>>
    /\ wire = <<>>
    /\ sent = <<>>
    /\ obs = [on |-> observe, msg |-> NoMsg, run |-> 0, runc |-> 0, waits |-> 0,
              again |-> FALSE, blank |-> ""]
    /\ codec = NoCall
    /\ app = NoSubmit

\* ------------------------------------------------------------ send_command
\* the command texts: strings of at most MaxCmdLen characters (code points)
\* out of a space, a line feed and a letter
CmdChars == {32, 10, 97}

Javascripts == UNION {[1..n -> CmdChars] : n \in 0..MaxCmdLen}

\* str.isspace, for the code points below 256
IsSpace(ch) == ch \in {9, 10, 11, 12, 13, 28, 29, 30, 31, 32, 133, 160}

RECURSIVE LStrip(_)
LStrip(s) == IF s # <<>> /\ IsSpace(Head(s)) THEN LStrip(Tail(s)) ELSE s

RECURSIVE RStrip(_)
RStrip(s) ==
    IF s # <<>> /\ IsSpace(s[Len(s)]) THEN RStrip(SubSeq(s, 1, Len(s) - 1)) ELSE s

\* str.strip
strip(s) == RStrip(LStrip(s))

\* the commands line 159 turns away, and the others
BlankCommands == {javascript \in Javascripts : strip(javascript) = <<>>}

NonBlankCommands == Javascripts \ BlankCommands

\* send_command suspended after the put of line 166: the command is queued,
\* its future is not yet
send_command_suspended ==
    /\ NonBlankCommands # {}
    /\ ncalls < budget
    /\ LET c == ncalls + 1 IN
        /\ ncalls' = c
        /\ command_queue' = Append(command_queue, c)
        /\ calls' = [calls EXCEPT ![c] =
                        [NewCall EXCEPT !.fut = "pending", !.ret = "waiting",
                            !.expect = Len(responses) + Len(pending_responses) + 1]]
    /\ UNCHANGED <<app, codec, config, budget, state, writer, retry_delay,
                   pending_responses, shutdown_event, connection_task,
                   sender_task, receiver_task, stop_pc, last_error_msg,
                   error_count, responses, wire, sent, obs>>
    /\ cb_error' = NoErrorCb
    /\ cb_state' = NoStateCb

\* lines 159-167: a non-blank command. Both puts complete without suspending
\* (the queues are unbounded), then the caller waits on its future.
send_command ==
    /\ NonBlankCommands # {}
    /\ ncalls < budget
    /\ LET c == ncalls + 1 IN
        /\ ncalls' = c
        /\ command_queue' = Append(command_queue, c)
        /\ pending_responses' = Append(pending_responses, c)
        /\ calls' = [calls EXCEPT ![c] =
                        [NewCall EXCEPT !.fut = "pending", !.ret = "waiting",
                            !.expect = Len(responses) + Len(pending_responses) + 1]]
    /\ UNCHANGED <<app, codec, config, budget, state, writer, retry_delay,
                   shutdown_event, connection_task, sender_task,
                   receiver_task, stop_pc, last_error_msg, error_count,
                   responses, wire, sent, obs>>
    /\ cb_error' = NoErrorCb
    /\ cb_state' = NoStateCb

\* send_command without the test of lines 159-160: the blank command is
\* queued with a future like any other
send_command_blank_queued ==
    /\ BlankCommands # {}
    /\ ncalls < budget
    /\ LET c == ncalls + 1 IN
        /\ ncalls' = c
        /\ command_queue' = Append(command_queue, c)
        /\ pending_responses' = Append(pending_responses, c)
        /\ calls' = [calls EXCEPT ![c] =
                        [NewCall EXCEPT !.fut = "pending", !.ret = "waiting",
                            !.expect = Len(responses) + Len(pending_responses) + 1]]
    /\ obs' = ObserveBlank(obs)
    /\ UNCHANGED <<app, codec, config, budget, state, writer, retry_delay,
                   shutdown_event, connection_task, sender_task,
                   receiver_task, stop_pc, last_error_msg, error_count,
                   responses, wire, sent>>
    /\ cb_error' = NoErrorCb
    /\ cb_state' = NoStateCb

\* lines 159-160: a command that is empty or all whitespace returns None
\* and touches nothing
send_command_blank ==
    /\ BlankCommands # {}
    /\ obs' = ObserveBlank(obs)
    /\ UNCHANGED <<calls, ncalls>>
    /\ UNCHANGED <<app, codec, config, budget, state, writer, command_queue,
                   pending_responses, retry_delay, shutdown_event,
                   connection_task, sender_task, receiver_task, stop_pc,
                   last_error_msg, error_count, responses, wire, sent>>
    /\ cb_error' = NoErrorCb
    /\ cb_state' = NoStateCb

\* command_timer with a wait_for that has no timeout
command_timer_unarmed(c) ==
    /\ calls[c].fut = "pending"
    /\ UNCHANGED <<app, codec, config, budget, state, writer, command_queue,
                   pending_responses, calls, ncalls, retry_delay, shutdown_event,
                   connection_task, sender_task, receiver_task, stop_pc,
                   last_error_msg, error_count, responses, wire, sent, obs>>
    /\ cb_error' = NoErrorCb
    /\ cb_state' = NoStateCb

\* line 171: the 30 s timer of wait_for fires on a future still pending: the
\* wait is cancelled, and with it the future, which stays in the queue
command_timer(c) ==
    /\ calls[c].fut = "pending"
    /\ calls' = [calls EXCEPT ![c].fut = "cancelled", ![c].why = "timeout",
                              ![c].expect = 0]
    /\ UNCHANGED <<app, codec, config, budget, state, writer, command_queue,
                   pending_responses, ncalls, retry_delay, shutdown_event,
                   connection_task, sender_task, receiver_task, stop_pc,
                   last_error_msg, error_count, responses, wire, sent, obs>>
    /\ cb_error' = NoErrorCb
    /\ cb_state' = NoStateCb

\* command_timed_out without the notification of line 174
command_timed_out_silent(c) ==
    /\ calls[c].ret = "waiting"
    /\ calls[c].why = "timeout"
    /\ calls' = [calls EXCEPT ![c].ret = "none"]
    /\ UNCHANGED <<app, codec, config, budget, state, writer, command_queue,
                   pending_responses, ncalls, retry_delay, shutdown_event,
                   connection_task, sender_task, receiver_task, stop_pc,
                   last_error_msg, error_count, responses, wire, sent, obs>>
    /\ cb_error' = NoErrorCb
    /\ cb_state' = NoStateCb

\* lines 173-175: the caller resumes with TimeoutError
command_timed_out(c) ==
    /\ calls[c].ret = "waiting"
    /\ calls[c].why = "timeout"
    /\ calls' = [calls EXCEPT ![c].ret = "none", ![c].errors = @ + 1]
    /\ SetDedup(notify_error(Dedup, MsgTimeout))
    /\ UNCHANGED <<app, codec, config, budget, state, writer, command_queue,
                   pending_responses, ncalls, retry_delay, shutdown_event,
                   connection_task, sender_task, receiver_task, stop_pc,
                   responses, wire, sent>>
    /\ cb_state' = NoStateCb

\* ------------------------------------------------------------------- start
\* lines 124-128
start ==
    /\ connection_task.pc = "none"
    /\ shutdown_event' = FALSE
    /\ connection_task' = ConnTask("created", 0, <<>>)
    /\ UNCHANGED <<app, codec, config, budget, state, writer, command_queue,
                   pending_responses, calls, ncalls, retry_delay,
                   sender_task, receiver_task, stop_pc, last_error_msg,
                   error_count, responses, wire, sent, obs>>
    /\ cb_error' = NoErrorCb
    /\ cb_state' = NoStateCb

\* start_running creating a task although one is held
start_running_creates ==
    /\ connection_task.pc # "none"
    /\ shutdown_event' = FALSE
    /\ connection_task' = ConnTask("created", 0, <<>>)
    /\ obs' = ObserveStart(obs)
    /\ UNCHANGED <<app, codec, config, budget, state, writer, command_queue,
                   pending_responses, calls, ncalls, retry_delay,
                   sender_task, receiver_task, stop_pc, last_error_msg,
                   error_count, responses, wire, sent>>
    /\ cb_error' = NoErrorCb
    /\ cb_state' = NoStateCb

\* lines 124-125: start() while a connection task is held returns at once
start_running ==
    /\ connection_task.pc # "none"
    /\ obs' = ObserveStart(obs)
    /\ UNCHANGED <<app, codec, config, budget, state, writer, command_queue,
                   pending_responses, calls, ncalls, retry_delay, shutdown_event,
                   connection_task, sender_task, receiver_task, stop_pc,
                   last_error_msg, error_count, responses, wire, sent>>
    /\ cb_error' = NoErrorCb
    /\ cb_state' = NoStateCb

\* --------------------------------------------------------- _connection_loop
\* line 181, then _connect up to its await (line 232): the head of the loop
LoopHead ==
    IF shutdown_event
    THEN /\ connection_task' = ConnTask("finished", 0, <<>>)
         /\ UNCHANGED <<state>>
         /\ cb_state' = NoStateCb
    ELSE /\ connection_task' = ConnTask("connecting", 0, <<>>)
         /\ state' = CONNECTING
         /\ cb_state' = StateCb(CONNECTING, FALSE, 0)

\* the task's first step
connection_loop_begin ==
    /\ connection_task.pc = "created"
    /\ LoopHead
    /\ UNCHANGED <<app, codec, config, budget, writer, command_queue, pending_responses,
                   calls, ncalls, retry_delay, shutdown_event, sender_task,
                   receiver_task, stop_pc, last_error_msg, error_count,
                   responses, wire, sent, obs>>
    /\ cb_error' = NoErrorCb

\* lines 235-239 and 185-199: the socket opens; the state is Connected, the
\* backoff and the dedup state are reset, the two loops are created. A loop
\* created with the shutdown event set ends at its first test of it.
connect_ok ==
    /\ connection_task.pc = "connecting"
    /\ writer' = "open"
    /\ wire' = <<>>
    /\ state' = CONNECTED
    /\ cb_state' = StateCb(CONNECTED, FALSE, 0)
    /\ retry_delay' = config.initial
    /\ SetDedup(ResetDedup(Dedup))
    /\ sender_task' = IF shutdown_event THEN "done" ELSE "running"
    /\ receiver_task' = IF shutdown_event THEN "done" ELSE "running"
    /\ connection_task' = ConnTask("wait", 0, <<>>)
    /\ UNCHANGED <<app, codec, config, budget, command_queue, pending_responses, calls, ncalls,
                   shutdown_event, stop_pc, responses, sent>>

\* CloseAndRetry without the _set_state(DISCONNECTED) of line 257
CloseAndRetry_keeps_state(d) ==
    /\ writer' = "none"
    /\ wire' = <<>>
    /\ UNCHANGED state
    /\ pending_responses' = <<>>
    /\ calls' = FailPending(calls, pending_responses)
    /\ IF shutdown_event
       THEN /\ connection_task' = ConnTask("finished", 0, <<>>)
            /\ cb_state' = NoStateCb
       ELSE /\ connection_task' = ConnTask("retry", retry_delay, <<>>)
            /\ cb_state' = StateCb(DISCONNECTED, TRUE, retry_delay)
    /\ SetDedup(d)

\* _close_connection from line 253 on, then lines 224-228 and _wait_for_retry
\* up to its first await: the socket is dropped, the state is Disconnected,
\* every pending future is failed; then the loop ends (shutdown) or the
\* backoff wait starts with its first countdown callback
CloseAndRetry(d) ==
    /\ writer' = "none"
    /\ wire' = <<>>
    /\ state' = DISCONNECTED
    /\ pending_responses' = <<>>
    /\ calls' = FailPending(calls, pending_responses)
    /\ IF shutdown_event
       THEN /\ connection_task' = ConnTask("finished", 0, <<>>)
            /\ cb_state' = StateCb(DISCONNECTED, FALSE, 0)
       ELSE /\ connection_task' = ConnTask("retry", retry_delay, <<>>)
            /\ cb_state' = StateCb(DISCONNECTED, TRUE, retry_delay)
    /\ SetDedup(d)

\* connect_fail with the exception leaving the loop, not caught at line 218
connect_fail_unhandled(message) ==
    /\ connection_task.pc = "connecting"
    /\ error_count < MaxErrCount
    /\ connection_task' = ConnTask("finished", 0, <<>>)
    /\ UNCHANGED <<app, codec, config, budget, state, writer, command_queue, pending_responses,
                   calls, ncalls, retry_delay, shutdown_event, sender_task,
                   receiver_task, stop_pc, last_error_msg, error_count, responses,
                   wire, sent, obs>>
    /\ cb_error' = NoErrorCb
    /\ cb_state' = NoStateCb

\* lines 240-243 and 218-219: the connect attempt fails (OSError) or times out
connect_fail(message) ==
    /\ connection_task.pc = "connecting"
    /\ error_count < MaxErrCount
    /\ CloseAndRetry(notify_error(Dedup, message))
    /\ UNCHANGED <<app, codec, config, budget, command_queue, ncalls, retry_delay,
                   shutdown_event, sender_task, receiver_task, stop_pc, responses,
                   sent>>

TaskStatus(t) == IF t = "sender" THEN sender_task ELSE receiver_task

\* str(e) of the exception a failed loop ended with, as line 214 reports it
ConnErrMsg(t) == IF t = "sender" THEN MsgConnErrSend ELSE MsgConnErrProtocol

\* lines 210-214: task.result() of every task of `done`, in the order the
\* set yields them: an exception is notified, the CancelledError of a
\* cancelled task leaves the loop through line 216 (brk)
RECURSIVE Results(_, _)
Results(order, d) ==
    IF order = <<>>
    THEN [brk |-> FALSE, d |-> d]
    ELSE IF TaskStatus(Head(order)) = "cancelled"
         THEN [brk |-> TRUE, d |-> d]
         ELSE Results(Tail(order),
                      IF TaskStatus(Head(order)) = "failed"
                      THEN notify_error(d, ConnErrMsg(Head(order)))
                      ELSE d)

\* lines 210-222: the results, then _close_connection: writer.close() and
\* the await of wait_closed(), which suspends unless the transport has
\* already lost its connection (immediate)
AfterResults(order, immediate) ==
    LET r == Results(order, Dedup) IN
    IF r.brk
    THEN /\ connection_task' = ConnTask("finished", 0, <<>>)
         /\ SetDedup(r.d)
         /\ UNCHANGED <<writer, wire, state, pending_responses, calls>>
         /\ cb_state' = NoStateCb
    ELSE IF writer = "open" /\ ~immediate
         THEN /\ connection_task' = ConnTask("closing", 0, <<>>)
              /\ SetDedup(r.d)
              /\ UNCHANGED <<writer, wire, state, pending_responses, calls>>
              /\ cb_state' = NoStateCb
         ELSE CloseAndRetry(r.d)

\* lines 205, 218-222: the loop that was cancelled and awaited has ended with
\* an exception of its own, which `await task` raises: it is notified by
\* line 219 and the results of line 210 are skipped
AfterAwaitRaised(immediate) ==
    LET d == notify_error(Dedup, MsgConnFailedSend) IN
    IF writer = "open" /\ ~immediate
    THEN /\ connection_task' = ConnTask("closing", 0, <<>>)
         /\ SetDedup(d)
         /\ UNCHANGED <<writer, wire, state, pending_responses, calls>>
         /\ cb_state' = NoStateCb
    ELSE CloseAndRetry(d)

\* task.cancel() on a sender loop that has not ended. The loop waits in
\* wait_for (line 294); when a command is queued the get() inside has ended
\* or ends before the loop runs, and wait_for (Python 3.11) then returns
\* the command and drops the cancellation (swallow): status "dropping".
CancelSender(t, swallow) ==
    IF t = "dropping" \/ (t = "running" /\ swallow /\ command_queue # <<>>)
    THEN "dropping"
    ELSE "cancelling"

\* lines 196-207: asyncio.wait returns with one loop done; the other is
\* cancelled and awaited
tasks_one_done ==
    /\ connection_task.pc = "wait"
    /\ TaskDone(sender_task) # TaskDone(receiver_task)
    /\ connection_task' =
            ConnTask("cancelwait", 0,
                     IF TaskDone(sender_task) THEN <<"sender">> ELSE <<"receiver">>)
    /\ \E swallow \in BOOLEAN :
            sender_task' = IF TaskDone(sender_task) THEN sender_task
                           ELSE CancelSender(sender_task, swallow)
    /\ receiver_task' = IF TaskDone(receiver_task) THEN receiver_task ELSE "cancelling"
    /\ UNCHANGED <<app, codec, config, budget, state, writer, command_queue,
                   pending_responses, calls, ncalls, retry_delay,
                   shutdown_event, stop_pc, last_error_msg, error_count,
                   responses, wire, sent, obs>>
    /\ cb_error' = NoErrorCb
    /\ cb_state' = NoStateCb

\* lines 196-222: asyncio.wait returns with both loops done
tasks_both_done ==
    /\ connection_task.pc = "wait"
    /\ TaskDone(sender_task)
    /\ TaskDone(receiver_task)
    /\ \E order \in {<<"sender", "receiver">>, <<"receiver", "sender">>} :
       \E immediate \in BOOLEAN :
            AfterResults(order, immediate)
    /\ UNCHANGED <<app, codec, config, budget, command_queue, ncalls, retry_delay,
                   shutdown_event, sender_task, receiver_task, stop_pc, responses,
                   sent>>

\* tasks_cancelled without the await of line 205: the connection loop goes
\* on as soon as it has cancelled the other loop
tasks_cancelled_unawaited ==
    /\ connection_task.pc = "cancelwait"
    /\ \E immediate \in BOOLEAN :
            AfterResults(connection_task.done, immediate)
    /\ UNCHANGED <<app, codec, config, budget, command_queue, ncalls, retry_delay,
                   shutdown_event, sender_task, receiver_task, stop_pc, responses,
                   sent>>

\* lines 205-222: the loop that was cancelled and awaited has ended
tasks_cancelled ==
    /\ connection_task.pc = "cancelwait"
    /\ TaskDone(sender_task)
    /\ TaskDone(receiver_task)
    /\ \E immediate \in BOOLEAN :
            IF connection_task.done = <<"receiver">> /\ sender_task = "failed"
            THEN AfterAwaitRaised(immediate)
            ELSE AfterResults(connection_task.done, immediate)
    /\ UNCHANGED <<app, codec, config, budget, command_queue, ncalls, retry_delay,
                   shutdown_event, sender_task, receiver_task, stop_pc, responses,
                   sent>>

\* lines 250-256 and on: wait_closed() has returned
connection_closed ==
    /\ connection_task.pc = "closing"
    /\ CloseAndRetry(Dedup)
    /\ UNCHANGED <<app, codec, config, budget, command_queue, ncalls, retry_delay,
                   shutdown_event, sender_task, receiver_task, stop_pc, responses,
                   sent>>

\* NextDelay without the clamp to max_retry_delay
NextDelay_unclamped(delay) == delay * config.mult

\* lines 283-286
NextDelay(delay) == Min(delay * config.mult, config.max)

\* backoff_tick ending the wait one tick early: the loop of line 271 left
\* while one second remains
backoff_tick_early ==
    /\ connection_task.pc = "retry"
    /\ ~shutdown_event
    /\ IF connection_task.remaining - 2 > 0
       THEN /\ connection_task' = ConnTask("retry", connection_task.remaining - 1, <<>>)
            /\ state' = DISCONNECTED
            /\ cb_state' = StateCb(DISCONNECTED, TRUE, connection_task.remaining - 1)
            /\ UNCHANGED retry_delay
       ELSE /\ retry_delay' = NextDelay(retry_delay)
            /\ LoopHead
    /\ obs' = IF connection_task.remaining - 2 > 0 THEN obs ELSE ObserveWait(obs)
    /\ UNCHANGED <<app, codec, config, budget, writer, command_queue, pending_responses,
                   calls, ncalls, shutdown_event, sender_task, receiver_task,
                   stop_pc, last_error_msg, error_count, responses, wire,
                   sent>>
    /\ cb_error' = NoErrorCb

\* lines 279-280 and 271-272: one second of the backoff wait has passed; the
\* next countdown is reported, or the wait is over (lines 283-286) and the
\* loop starts again
backoff_tick ==
    /\ connection_task.pc = "retry"
    /\ ~shutdown_event
    /\ IF connection_task.remaining - 1 > 0
       THEN /\ connection_task' = ConnTask("retry", connection_task.remaining - 1, <<>>)
            /\ state' = DISCONNECTED
            /\ cb_state' = StateCb(DISCONNECTED, TRUE, connection_task.remaining - 1)
            /\ UNCHANGED retry_delay
       ELSE /\ retry_delay' = NextDelay(retry_delay)
            /\ LoopHead
    /\ obs' = IF connection_task.remaining - 1 > 0 THEN obs ELSE ObserveWait(obs)
    /\ UNCHANGED <<app, codec, config, budget, writer, command_queue, pending_responses,
                   calls, ncalls, shutdown_event, sender_task, receiver_task,
                   stop_pc, last_error_msg, error_count, responses, wire,
                   sent>>
    /\ cb_error' = NoErrorCb

\* lines 274-278: the shutdown event ends the wait
backoff_interrupted ==
    /\ connection_task.pc = "retry"
    /\ shutdown_event
    /\ retry_delay' = NextDelay(retry_delay)
    /\ LoopHead
    /\ obs' = ObserveWait(obs)
    /\ UNCHANGED <<app, codec, config, budget, writer, command_queue, pending_responses,
                   calls, ncalls, shutdown_event, sender_task, receiver_task,
                   stop_pc, last_error_msg, error_count, responses, wire,
                   sent>>
    /\ cb_error' = NoErrorCb

\* ------------------------------------------------------------ _sender_loop
\* sender_send taking the newest command of the queue, not the oldest
sender_send_newest ==
    /\ sender_task \in {"running", "dropping"}
    /\ command_queue # <<>>
    /\ command_queue' = SubSeq(command_queue, 1, Len(command_queue) - 1)
    /\ wire' = IF writer = "none" THEN wire
               ELSE Append(wire, command_queue[Len(command_queue)])
    /\ sent' = IF writer = "none" THEN sent
               ELSE Append(sent, command_queue[Len(command_queue)])
    /\ sender_task' = IF shutdown_event THEN "done" ELSE "running"
    /\ UNCHANGED <<app, codec, config, budget, state, writer, pending_responses, calls,
                   ncalls, retry_delay, shutdown_event, connection_task,
                   receiver_task, stop_pc, last_error_msg, error_count,
                   responses, obs>>
    /\ cb_error' = NoErrorCb
    /\ cb_state' = NoStateCb

\* sender_send taking the command and writing nothing
sender_send_unwritten ==
    /\ sender_task \in {"running", "dropping"}
    /\ command_queue # <<>>
    /\ command_queue' = Tail(command_queue)
    /\ sender_task' = IF shutdown_event THEN "done" ELSE "running"
    /\ UNCHANGED <<app, codec, config, budget, state, writer, pending_responses, calls,
                   ncalls, retry_delay, shutdown_event, connection_task,
                   receiver_task, stop_pc, last_error_msg, error_count,
                   responses, wire, sent, obs>>
    /\ cb_error' = NoErrorCb
    /\ cb_state' = NoStateCb

\* lines 294-307, then the test of line 290: the next command is taken and,
\* unless there is no writer, its frame is written and flushed
sender_send ==
    /\ sender_task \in {"running", "dropping"}
    /\ command_queue # <<>>
    /\ command_queue' = Tail(command_queue)
    /\ wire' = IF writer = "none" THEN wire ELSE Append(wire, Head(command_queue))
    /\ sent' = IF writer = "none" THEN sent ELSE Append(sent, Head(command_queue))
    /\ sender_task' = IF shutdown_event THEN "done" ELSE "running"
    /\ UNCHANGED <<app, codec, config, budget, state, writer, pending_responses, calls,
                   ncalls, retry_delay, shutdown_event, connection_task,
                   receiver_task, stop_pc, last_error_msg, error_count,
                   responses, obs>>
    /\ cb_error' = NoErrorCb
    /\ cb_state' = NoStateCb

\* lines 306-313: the write or the flush of the command taken raises
sender_fail ==
    /\ sender_task \in {"running", "dropping"}
    /\ command_queue # <<>>
    /\ error_count < MaxErrCount
    /\ command_queue' = Tail(command_queue)
    /\ SetDedup(notify_error(Dedup, MsgSend))
    /\ sender_task' = "failed"
    /\ UNCHANGED <<app, codec, config, budget, state, writer, pending_responses, calls,
                   ncalls, retry_delay, shutdown_event, connection_task,
                   receiver_task, stop_pc, responses, wire, sent>>
    /\ cb_state' = NoStateCb

\* lines 309-310: the cancelled sender loop ends
sender_cancelled ==
    /\ sender_task = "cancelling"
    /\ sender_task' = "cancelled"
    /\ UNCHANGED <<app, codec, config, budget, state, writer, command_queue, pending_responses,
                   calls, ncalls, retry_delay, shutdown_event, connection_task,
                   receiver_task, stop_pc, last_error_msg, error_count, responses,
                   wire, sent, obs>>
    /\ cb_error' = NoErrorCb
    /\ cb_state' = NoStateCb

\* ---------------------------------------------------------- _receiver_loop
\* Resolve handing the payload to the newest future of the queue
Resolve_newest(cs, q, payload, notified) ==
    IF q # <<>> /\ cs[q[Len(q)]].fut = "pending"
    THEN [cs EXCEPT ![q[Len(q)]] =
            [@ EXCEPT !.fut = "result", !.val = payload, !.ret = "value",
                      !.expect = 0, !.stranded = FALSE,
                      !.heard = (notified # <<>> /\ notified[Len(notified)] = payload),
                      !.fifo = IF Len(notified) = cs[q[Len(q)]].expect
                               THEN "yes" ELSE "no"]]
    ELSE cs

\* lines 335-337: the oldest future is popped, and resolved unless done; the
\* caller's wait returns the payload. notified: the on_response invocations
\* made so far, numbered as the frames are.
Resolve(cs, q, payload, notified) ==
    IF q # <<>> /\ cs[Head(q)].fut = "pending"
    THEN [cs EXCEPT ![Head(q)] =
            [@ EXCEPT !.fut = "result", !.val = payload, !.ret = "value",
                      !.expect = 0, !.stranded = FALSE,
                      !.heard = (notified # <<>> /\ notified[Len(notified)] = payload),
                      !.fifo = IF Len(notified) = cs[Head(q)].expect
                               THEN "yes" ELSE "no"]]
    ELSE cs

PopOldest(q) == IF q = <<>> THEN q ELSE Tail(q)

\* a receiver loop that does not pass the payload to on_response
notify_response_skipped(rs, response) == rs

\* lines 117-120: _notify_response on the on_response invocations rs
notify_response(rs, response) == Append(rs, response)

\* receiver_recv treating a frame that finds no future queued as a protocol
\* error: the error is notified and the loop ends
receiver_recv_strict ==
    /\ receiver_task = "running"
    /\ wire # <<>>
    /\ error_count < MaxErrCount
    /\ wire' = Tail(wire)
    /\ LET payload == Resp(Head(wire))
           notified == notify_response(responses, payload)
       IN  /\ responses' = notified
           /\ calls' = Resolve(calls, pending_responses, payload, notified)
    /\ pending_responses' = PopOldest(pending_responses)
    /\ IF pending_responses = <<>>
       THEN /\ SetDedup(notify_error(Dedup, MsgProtocol))
            /\ receiver_task' = "failed"
       ELSE /\ receiver_task' = IF shutdown_event THEN "done" ELSE "running"
            /\ UNCHANGED <<last_error_msg, error_count, obs>>
            /\ cb_error' = NoErrorCb
    /\ UNCHANGED <<app, codec, config, budget, state, writer, command_queue, ncalls,
                   retry_delay, shutdown_event, connection_task, sender_task,
                   stop_pc, sent>>
    /\ cb_state' = NoStateCb

\* lines 323-339, then the test of line 317: the remote's answer to the
\* oldest unanswered command on the socket is read and decoded
receiver_recv ==
    /\ receiver_task = "running"
    /\ wire # <<>>
    /\ wire' = Tail(wire)
    /\ LET payload == Resp(Head(wire))
           notified == notify_response(responses, payload)
       IN  /\ responses' = notified
           /\ calls' = Resolve(calls, pending_responses, payload, notified)
    /\ pending_responses' = PopOldest(pending_responses)
    /\ receiver_task' = IF shutdown_event THEN "done" ELSE "running"
    /\ UNCHANGED <<app, codec, config, budget, state, writer, command_queue, ncalls,
                   retry_delay, shutdown_event, connection_task, sender_task,
                   stop_pc, last_error_msg, error_count, sent, obs>>
    /\ cb_error' = NoErrorCb
    /\ cb_state' = NoStateCb

\* lines 341-343: the remote closed the stream
receiver_eof ==
    /\ receiver_task = "running"
    /\ receiver_task' = "done"
    /\ UNCHANGED <<app, codec, config, budget, state, writer, command_queue,
                   pending_responses, calls, ncalls, retry_delay,
                   shutdown_event, connection_task, sender_task, stop_pc,
                   last_error_msg, error_count, responses, wire, sent, obs>>
    /\ cb_error' = NoErrorCb
    /\ cb_state' = NoStateCb

\* lines 346-348: a frame that does not decode
receiver_fail ==
    /\ receiver_task = "running"
    /\ error_count < MaxErrCount
    /\ SetDedup(notify_error(Dedup, MsgProtocol))
    /\ receiver_task' = "failed"
    /\ UNCHANGED <<app, codec, config, budget, state, writer, command_queue,
                   pending_responses, calls, ncalls, retry_delay,
                   shutdown_event, connection_task, sender_task, stop_pc,
                   responses, wire, sent>>
    /\ cb_state' = NoStateCb

\* lines 344-345: the cancelled receiver loop ends
receiver_cancelled ==
    /\ receiver_task = "cancelling"
    /\ receiver_task' = "cancelled"
    /\ UNCHANGED <<app, codec, config, budget, state, writer, command_queue, pending_responses,
                   calls, ncalls, retry_delay, shutdown_event, connection_task,
                   sender_task, stop_pc, last_error_msg, error_count, responses,
                   wire, sent, obs>>
    /\ cb_error' = NoErrorCb
    /\ cb_state' = NoStateCb

\* -------------------------------------------------------------------- stop
\* lines 135-141 from the i-th task of [sender, receiver, connection] on:
\* a task that is None is skipped; a task that has not ended is cancelled and
\* awaited (stop suspends); awaiting a task that has ended returns at once, or
\* raises the exception the task ended with, which leaves stop().
\* The connection task cancelled inside wait_for (line 235) at the moment
\* the connect attempt has ended is not cancelled: wait_for (Python 3.11)
\* returns the attempt's outcome and drops the cancellation (swallow).
\* t = [sender, receiver, conn, pc, swallow]
RECURSIVE StopTasks(_, _)
StopTasks(i, t) ==
    IF i = 1
    THEN IF t.sender \in {"running", "cancelling", "dropping"}
         THEN [t EXCEPT !.sender = CancelSender(t.sender, t.swallow),
                        !.pc = "await_sender"]
         ELSE IF t.sender = "failed"
              THEN [t EXCEPT !.pc = "raised"]
              ELSE StopTasks(2, t)
    ELSE IF i = 2
    THEN IF t.receiver \in {"running", "cancelling"}
         THEN [t EXCEPT !.receiver = "cancelling", !.pc = "await_receiver"]
         ELSE IF t.receiver = "failed"
              THEN [t EXCEPT !.pc = "raised"]
              ELSE StopTasks(3, t)
    ELSE IF t.conn.pc \in {"none", "finished", "cancelled"}
         THEN [t EXCEPT !.pc = "close"]
         ELSE IF t.conn.pc = "wait" \/ (t.conn.pc = "connecting" /\ ~t.swallow)
              \* CancelledError inside the try: line 216, the loop ends
              THEN [t EXCEPT !.conn = ConnTask("finished", 0, <<>>), !.pc = "await_conn"]
              ELSE IF t.conn.pc \in {"cancelwait", "connecting"}
                   \* CancelledError raised at line 205 and swallowed by line
                   \* 206, or dropped by wait_for
                   THEN [t EXCEPT !.pc = "await_conn"]
                   \* not yet started, or at lines 222, 228 outside the try
                   ELSE [t EXCEPT !.conn = ConnTask("cancelled", 0, <<>>), !.pc = "await_conn"]

StopState == [sender |-> sender_task, receiver |-> receiver_task,
              conn |-> connection_task, pc |-> "", swallow |-> FALSE]

\* StopFinish without the _close_connection of line 143: the socket is kept
StopFinish_keeps_socket ==
    /\ UNCHANGED <<writer, wire, state, pending_responses, calls>>
    /\ cb_state' = NoStateCb
    /\ connection_task' = ConnTask("none", 0, <<>>)
    /\ sender_task' = "none"
    /\ receiver_task' = "none"
    /\ stop_pc' = "idle"

\* line 143 from line 253 on and lines 145-147: stop() completes
StopFinish ==
    /\ writer' = "none"
    /\ wire' = <<>>
    /\ state' = DISCONNECTED
    /\ cb_state' = StateCb(DISCONNECTED, FALSE, 0)
    /\ pending_responses' = <<>>
    /\ calls' = FailPending(calls, pending_responses)
    /\ connection_task' = ConnTask("none", 0, <<>>)
    /\ sender_task' = "none"
    /\ receiver_task' = "none"
    /\ stop_pc' = "idle"

\* stop() runs on from the tasks' outcome t up to its next suspension
StopContinue(t, immediate) ==
    IF t.pc = "close" /\ ~(writer = "open" /\ ~immediate)
    THEN StopFinish
    ELSE /\ sender_task' = t.sender
         /\ receiver_task' = t.receiver
         /\ connection_task' = t.conn
         /\ stop_pc' = IF t.pc = "close" THEN "closing" ELSE t.pc
         /\ calls' = IF t.pc = "raised" THEN MarkStranded(calls) ELSE calls
         /\ UNCHANGED <<writer, wire, state, pending_responses>>
         /\ cb_state' = NoStateCb

\* line 132 on: stop() is called
stop_begin ==
    /\ stop_pc \in {"idle", "raised"}
    /\ shutdown_event' = TRUE
    /\ \E immediate, swallow \in BOOLEAN :
            StopContinue(StopTasks(1, [StopState EXCEPT !.swallow = swallow]),
                         immediate)
    /\ UNCHANGED <<app, codec, config, budget, command_queue, ncalls, retry_delay,
                   last_error_msg, error_count, responses, sent, obs>>
    /\ cb_error' = NoErrorCb

\* line 139: the awaited task has ended
stop_resume ==
    /\ stop_pc \in {"await_sender", "await_receiver", "await_conn"}
    /\ stop_pc = "await_sender" => TaskDone(sender_task)
    /\ stop_pc = "await_receiver" => TaskDone(receiver_task)
    /\ stop_pc = "await_conn" => ConnTerminal
    /\ \E immediate, swallow \in BOOLEAN :
            StopContinue(StopTasks(IF stop_pc = "await_sender" THEN 2
                                   ELSE IF stop_pc = "await_receiver" THEN 3 ELSE 4,
                                   [StopState EXCEPT !.swallow = swallow]),
                         immediate)
    /\ UNCHANGED <<app, codec, config, budget, command_queue, ncalls, retry_delay,
                   shutdown_event, last_error_msg, error_count, responses,
                   sent, obs>>
    /\ cb_error' = NoErrorCb

\* line 250: wait_closed() has returned
stop_closed ==
    /\ stop_pc = "closing"
    /\ StopFinish
    /\ UNCHANGED <<app, codec, config, budget, command_queue, ncalls, retry_delay,
                   shutdown_event, last_error_msg, error_count, responses,
                   sent, obs>>
    /\ cb_error' = NoErrorCb

\* ---------------------------------------------------------- specification
Next ==
    \/ send_command
    \/ send_command_blank
    \/ \E c \in 1..budget : command_timer(c)
    \/ \E c \in 1..budget : command_timed_out(c)
    \/ start
    \/ start_running
    \/ connection_loop_begin
    \/ connect_ok
    \/ \E message \in {MsgConnRefused, MsgConnTimedOut} : connect_fail(message)
    \/ tasks_one_done
    \/ tasks_both_done
    \/ tasks_cancelled
    \/ connection_closed
    \/ backoff_tick
    \/ backoff_interrupted
    \/ sender_send
    \/ sender_fail
    \/ sender_cancelled
    \/ receiver_recv
    \/ receiver_eof
    \/ receiver_fail
    \/ receiver_cancelled
    \/ stop_begin
    \/ stop_resume
    \/ stop_closed

\* the manager while stop() is not called
NextRun ==
    \/ send_command
    \/ send_command_blank
    \/ \E c \in 1..budget : command_timer(c)
    \/ \E c \in 1..budget : command_timed_out(c)
    \/ start
    \/ start_running
    \/ connection_loop_begin
    \/ connect_ok
    \/ \E message \in {MsgConnRefused, MsgConnTimedOut} : connect_fail(message)
    \/ tasks_one_done
    \/ tasks_both_done
    \/ tasks_cancelled
    \/ connection_closed
    \/ backoff_tick
    \/ sender_send
    \/ sender_fail
    \/ sender_cancelled
    \/ receiver_recv
    \/ receiver_eof
    \/ receiver_fail
    \/ receiver_cancelled

Init == Init0(ShortConfig, MaxCalls, "none")

Spec == Init /\ [][Next]_vars

InitRun == Init0(ShortConfig, RunCalls, "none")

SpecRun == InitRun /\ [][NextRun]_vars

\* the manager while send_command is not called
NextConn ==
    \/ start
    \/ start_running
    \/ connection_loop_begin
    \/ connect_ok
    \/ \E message \in {MsgConnRefused, MsgConnTimedOut} : connect_fail(message)
    \/ tasks_one_done
    \/ tasks_both_done
    \/ tasks_cancelled
    \/ connection_closed
    \/ backoff_tick
    \/ backoff_interrupted
    \/ sender_cancelled
    \/ receiver_eof
    \/ receiver_fail
    \/ receiver_cancelled
    \/ stop_begin
    \/ stop_resume
    \/ stop_closed

\* the default configuration, the backoff waits observed
InitBackoff == Init0(DefaultConfig, 0, "waits")

SpecBackoff == InitBackoff /\ [][NextConn]_vars

\* the error notifications observed
InitDedup == Init0(ShortConfig, DedupCalls, "errors")

SpecDedup == InitDedup /\ [][Next]_vars

\* start() called while running observed
InitStart == Init0(ShortConfig, 0, "starts")

SpecStart == InitStart /\ [][NextConn]_vars

\* The event loop runs every task that is ready and fires every timer, and
\* a connect attempt ends within its 10 s timeout: the steps of the
\* connection task and the ends of the cancelled loops are not postponed
\* forever.
LiveFair ==
    /\ WF_vars(connection_loop_begin)
    /\ WF_vars(connect_ok \/ \E message \in {MsgConnRefused, MsgConnTimedOut} :
                                connect_fail(message))
    /\ WF_vars(tasks_one_done)
    /\ WF_vars(tasks_both_done)
    /\ WF_vars(tasks_cancelled)
    /\ WF_vars(connection_closed)
    /\ WF_vars(backoff_tick)
    /\ WF_vars(sender_cancelled)
    /\ WF_vars(sender_task = "dropping" /\ (sender_send \/ sender_fail))
    /\ WF_vars(receiver_cancelled)

InitLive == Init0(ShortConfig, LiveCalls, "none")

\* the manager while stop() is not called, under a fair event loop
SpecLive == InitLive /\ [][NextRun]_vars /\ LiveFair

\* ------------------------------------------------------------------ claims
\* C1 (FIFO correlation): a send_command call that returns a payload returns
\* the frame that arrived at the call's own position: counting the inbound
\* frames as they arrive, the call made when k frames had arrived and p
\* futures were queued ahead of it is resolved by frame k + p + 1, so calls
\* made in the order A, B, C get the first, second and third response.
C1_FifoCorrelation ==
    \A c \in 1..budget :
        calls[c].fut = "result" =>
            /\ calls[c].fifo = "yes"
            /\ calls[c].ret = "value"
            /\ calls[c].val \in Range(responses)

\* two calls outstanding at once, each answered by its own frame
C1_Witness ==
    /\ budget >= 2
    /\ calls[1].fifo = "yes" /\ calls[1].val = Resp(1)
    /\ calls[2].fifo = "yes" /\ calls[2].val = Resp(2)
    /\ responses = <<Resp(1), Resp(2)>>
    /\ sent = <<1, 2>>
    /\ state = CONNECTED

\* C2 (lockstep invariant): between operations the number of futures in the
\* correlation queue equals the number of commands not yet answered, those
\* still in the outbound queue plus those written and awaiting a response.
C2_Lockstep ==
    Len(pending_responses) = Len(command_queue) + Len(wire)

\* a stop() call ends in this step, by returning or by raising
StopEnds ==
    /\ stop_begin \/ stop_resume \/ stop_closed
    /\ stop_pc' \in {"idle", "raised"}

\* C3 (shutdown drains cleanly): when a stop() call ends, no send_command
\* call that was outstanding is left waiting, the state is Disconnected, the
\* correlation queue is empty and neither the sender loop, the receiver loop
\* nor the connection task is still running.
C3_ShutdownDrains ==
    [][StopEnds =>
        /\ \A c \in 1..budget : calls'[c].fut # "pending"
        /\ state' = DISCONNECTED
        /\ pending_responses' = <<>>
        /\ sender_task' \notin {"running", "cancelling", "dropping"}
        /\ receiver_task' \notin {"running", "cancelling"}
        /\ connection_task'.pc \in {"none", "finished", "cancelled"}]_vars

\* C4 (cancellation outcome): a call whose future is failed by a close of the
\* connection returns none, makes no error notification and never gets a
\* payload; a call still outstanding after a stop() call makes no error
\* notification either.
C4_CancellationOutcome ==
    \A c \in 1..budget :
        /\ calls[c].why = "closed" =>
                /\ calls[c].fut = "cancelled"
                /\ calls[c].ret = "none"
                /\ calls[c].errors = 0
                /\ calls[c].val = 0
        /\ calls[c].stranded => calls[c].errors = 0

\* what a timeout leaves alone
TimeoutFrame ==
    UNCHANGED <<state, writer, wire, sender_task, receiver_task, connection_task,
                command_queue, pending_responses, responses, sent, retry_delay,
                shutdown_event, stop_pc>>

\* C5 (timeout): a call whose 30 s wait elapses on a pending future returns
\* none and makes exactly one error notification, the timeout message; the
\* step that cancels the future and the step that notifies leave the state,
\* the socket, the loops and the queues as they are.
C5_Timeout ==
    /\ [](\A c \in 1..budget :
            (calls[c].why = "timeout" /\ calls[c].ret # "waiting") =>
                (calls[c].ret = "none" /\ calls[c].errors = 1 /\ calls[c].val = 0))
    /\ [][\A c \in 1..budget :
            /\ (calls[c].why # "timeout" /\ calls'[c].why = "timeout") =>
                    (TimeoutFrame /\ cb_state' = NoStateCb)
            /\ calls'[c].errors # calls[c].errors =>
                    /\ calls[c].why = "timeout"
                    /\ calls'[c].errors = 1
                    /\ cb_error'.text # <<>>
                    /\ cb_error'.text[1] = MsgTimeout
                    /\ cb_state' = NoStateCb
                    /\ TimeoutFrame]_vars

\* a call timed out while Connected, and the connection is as it was
C5_Witness ==
    /\ calls[1].why = "timeout"
    /\ calls[1].ret = "none"
    /\ calls[1].errors = 1
    /\ cb_error = [text |-> <<MsgTimeout>>, is_repeat |-> FALSE]
    /\ state = CONNECTED
    /\ writer = "open"
    /\ sender_task = "running"
    /\ receiver_task = "running"

\* C6 (transmission order): the frames written to the socket, over all
\* connections, are in the order of the send_command calls that queued them,
\* and no command is written twice.
C6_TransmissionOrder ==
    \A i, j \in DOMAIN sent : i < j => sent[i] < sent[j]

\* the first command went out on a connection that was closed before the
\* second command went out on the next one
C6_Witness ==
    /\ sent = <<1, 2>>
    /\ calls[1].why = "closed"
    /\ responses = <<Resp(2)>>
    /\ calls[2].fut = "result"

\* a loop of the connected session has ended and the connection task has
\* not yet closed the connection
LoopEnded ==
    /\ connection_task.pc \in {"wait", "cancelwait", "closing"}
    /\ TaskDone(sender_task) \/ TaskDone(receiver_task)

\* C7 (recovery): while stop() is not called the connection task never
\* ends; after a loop of the session has ended the state becomes
\* Disconnected and the backoff wait runs; and every backoff wait, whether
\* it follows the end of a loop, a failed or a timed out connect attempt, is
\* followed by a new connect attempt (state Connecting).
C7_Recovery ==
    /\ [](connection_task.pc \notin {"finished", "cancelled"})
    /\ (LoopEnded ~> (connection_task.pc = "retry" /\ state = DISCONNECTED))
    /\ (connection_task.pc = "retry" ~>
            (connection_task.pc = "connecting" /\ state = CONNECTING))

\* a new connect attempt after a session the receiver loop ended with an
\* error, and after the backoff wait
C7_Witness ==
    /\ connection_task.pc = "connecting"
    /\ state = CONNECTING
    /\ receiver_task = "failed"
    /\ retry_delay > config.initial

\* the waits the specification lists for the default configuration
BackoffSeq == <<2, 4, 8, 16, 30, 30>>

\* C8 (backoff sequence): under the default configuration the k-th backoff
\* wait since the last successful connect (the waits that came to their end
\* counted) lasts 2, 4, 8, 16, 30, 30, ... seconds; after a successful
\* connect the count starts again, so the next wait is 2 seconds.
C8_BackoffSequence ==
    /\ retry_delay = BackoffSeq[Min(obs.waits, Len(BackoffSeq) - 1) + 1]
    /\ connection_task.pc = "retry" =>
            /\ connection_task.remaining >= 1
            /\ connection_task.remaining <= retry_delay
            /\ cb_state.state = DISCONNECTED =>
                    cb_state = StateCb(DISCONNECTED, TRUE, connection_task.remaining)

\* the sixth wait in a row begins: 30 seconds again
C8_Witness ==
    /\ connection_task.pc = "retry"
    /\ obs.waits = 5
    /\ connection_task.remaining = 30
    /\ cb_state = StateCb(DISCONNECTED, TRUE, 30)

\* the suffix the specification gives for a repeat
ClaimedRepeatText(message, n) == <<message, " (×", n, ")">>

\* C9 as stated (error dedup): the first notification of a run of
\* consecutive identical messages is delivered unchanged with is_repeat
\* false, the N-th of the run with the suffix for N and is_repeat true.
C9_DedupAsStated ==
    (cb_error # NoErrorCb /\ obs.run < RunCap) =>
        IF obs.run = 1
        THEN cb_error = [text |-> <<obs.msg>>, is_repeat |-> FALSE]
        ELSE cb_error = [text |-> ClaimedRepeatText(obs.msg, obs.run),
                         is_repeat |-> TRUE]

\* C9 (error dedup): counting a run of consecutive identical messages from
\* the last entry into Connected, the first notification of the run is
\* delivered unchanged with is_repeat false, and the N-th (N >= 2) as the
\* message followed by " (xN)", with is_repeat true.
C9_Dedup ==
    cb_error # NoErrorCb =>
        IF obs.runc = 1
        THEN cb_error = [text |-> <<obs.msg>>, is_repeat |-> FALSE]
        ELSE cb_error = [text |-> RepeatText(obs.msg, obs.runc),
                         is_repeat |-> TRUE]

\* the second identical connect failure in a row is delivered as a repeat
C9_Witness ==
    /\ cb_error = [text |-> RepeatText(MsgConnRefused, 2), is_repeat |-> TRUE]
    /\ obs.run = 2
    /\ obs.runc = 2

AllowedTransitions ==
    {<<DISCONNECTED, CONNECTING>>, <<CONNECTING, CONNECTED>>,
     <<CONNECTING, DISCONNECTED>>, <<CONNECTED, DISCONNECTED>>}

\* C10 (state transitions): the state is always one of the three states and
\* changes only from Disconnected to Connecting, from Connecting to
\* Connected, from Connecting to Disconnected and from Connected to
\* Disconnected.
C10_StateTransitions ==
    /\ [](state \in ConnectionState)
    /\ [][state' # state => <<state, state'>> \in AllowedTransitions]_vars

\* a session was Connected and has been closed: the backoff wait begins
C10_Witness ==
    /\ state = DISCONNECTED
    /\ cb_state = StateCb(DISCONNECTED, TRUE, retry_delay)
    /\ connection_task.pc = "retry"
    /\ sender_task # "none"

\* the manager's own state: everything but the notifications of the step
\* and the observer
ManagerState ==
    <<config, state, writer, command_queue, pending_responses, calls, ncalls,
      retry_delay, shutdown_event, connection_task, sender_task, receiver_task,
      stop_pc, last_error_msg, error_count, responses, wire, sent>>

\* C11 (start is idempotent): a connection task is created only when the
\* manager holds none, the task held is given up only after it has ended, so
\* at most one connection task is alive at any time; and a start() called
\* while a task is held changes nothing and makes no callback.
C11_StartIdempotent ==
    [][/\ (connection_task'.pc = "created" /\ connection_task.pc # "created") =>
                connection_task.pc = "none"
       /\ (connection_task.pc # "none" /\ connection_task'.pc = "none") =>
                connection_task.pc \in {"finished", "cancelled"}
       /\ start_running =>
                (UNCHANGED ManagerState /\ cb_error' = NoErrorCb /\ cb_state' = NoStateCb)
      ]_vars

\* start() was called again during a Connected session, which goes on
C11_Witness ==
    /\ obs.again
    /\ connection_task.pc = "wait"
    /\ state = CONNECTED
    /\ sender_task = "running"
    /\ receiver_task = "running"

\* C12 (stop is safe and idempotent): whenever a stop() call ends, in
\* whatever situation it was called, it has returned and not raised, the
\* state is Disconnected, the socket is closed and the manager holds no
\* connection, sender or receiver task.
C12_StopSafe ==
    [][StopEnds =>
        /\ stop_pc' = "idle"
        /\ state' = DISCONNECTED
        /\ writer' = "none"
        /\ connection_task'.pc = "none"
        /\ sender_task' = "none"
        /\ receiver_task' = "none"]_vars

\* ------------------------------------------------- the calls of protocol.py
\* the characters of the command strings: NUL, a letter, a two-byte, a
\* three-byte and a four-byte character, and a lone surrogate
StrChars == {0, 97, 233, 8364, 128512, 55296}

Strings == UNION {[1..n -> StrChars] : n \in 0..MaxStrLen}

\* the bytes of the inputs of the decoders: NUL, small values for the
\* header fields, a letter, the two bytes of U+00E9 and an invalid byte
HeaderBytes == {0, 1, 3}

PayloadBytes == {0, 97, 195, 169, 255}

ByteStrings(bytes, n) == UNION {[1..k -> bytes] : k \in 0..n}

\* the headers given to decode_message: those whose length field is at most
\* MaxPayloadLen + 1, or 256 or 65536, and whose type field is 3 or 0; the
\* same with one byte more; and the headers that are too short
HeaderInputs ==
    LET whole == {PackLE32(length) \o PackLE32(msg_type) :
                    length \in (0..(MaxPayloadLen + 1)) \cup {256, 65536},
                    msg_type \in {MESSAGE_TYPE, 0}}
    IN  whole \cup {h \o <<97>> : h \in whole}
              \cup {SubSeq(h, 1, HEADER_SIZE - 1) : h \in whole} \cup {<<>>}

ManagerVars ==
    <<config, budget, state, writer, command_queue, pending_responses, calls,
      ncalls, retry_delay, shutdown_event, connection_task, sender_task,
      receiver_task, stop_pc, last_error_msg, error_count, cb_error, cb_state,
      responses, wire, sent, obs>>

call_encode_command ==
    /\ codec.op = "none"
    /\ \E javascript \in Strings :
            codec' = CodecCall("encode_command", "input", javascript, <<>>, <<>>,
                               encode_command(javascript))
    /\ UNCHANGED <<ManagerVars, app>>

\* decode_header on any input of at most HEADER_SIZE + 1 bytes
call_decode_header ==
    /\ codec.op = "none"
    /\ \E data \in ByteStrings(HeaderBytes, HEADER_SIZE + 1) :
            codec' = CodecCall("decode_header", "input", <<>>, data, <<>>,
                               decode_header(data))
    /\ UNCHANGED <<ManagerVars, app>>

\* decode_header on the first HEADER_SIZE bytes of the frame just encoded
call_decode_header_frame ==
    /\ codec.op = "encode_command"
    /\ ~codec.out.err
    /\ LET data == SubSeq(codec.out.bytes, 1, HEADER_SIZE) IN
            codec' = CodecCall("decode_header", "frame", codec.javascript, data,
                               SubSeq(codec.out.bytes, HEADER_SIZE + 1,
                                      Len(codec.out.bytes)),
                               decode_header(data))
    /\ UNCHANGED <<ManagerVars, app>>

\* decode_message on a header of HeaderInputs and any payload of at most
\* MaxPayloadLen bytes
call_decode_message ==
    /\ codec.op = "none"
    /\ \E header \in HeaderInputs :
       \E payload \in ByteStrings(PayloadBytes, MaxPayloadLen) :
            codec' = CodecCall("decode_message", "input", <<>>, header, payload,
                               decode_message(header, payload))
    /\ UNCHANGED <<ManagerVars, app>>

\* decode_message on the frame just encoded, split after HEADER_SIZE bytes
call_decode_message_frame ==
    /\ codec.op = "encode_command"
    /\ ~codec.out.err
    /\ LET header == SubSeq(codec.out.bytes, 1, HEADER_SIZE)
           payload == SubSeq(codec.out.bytes, HEADER_SIZE + 1, Len(codec.out.bytes))
       IN  codec' = CodecCall("decode_message", "frame", codec.javascript, header,
                              payload, decode_message(header, payload))
    /\ UNCHANGED <<ManagerVars, app>>

\* the caller is done with the result
call_return ==
    /\ codec.op # "none"
    /\ codec' = NoCall
    /\ UNCHANGED <<ManagerVars, app>>

NextCodec ==
    \/ call_return
    \/ call_encode_command
    \/ call_decode_header
    \/ call_decode_header_frame
    \/ call_decode_message
    \/ call_decode_message_frame

InitCodec == Init0(ShortConfig, 0, "none")

\* the functions of protocol.py called one after another on any input
SpecCodec == InitCodec /\ [][NextCodec]_vars

\* C13 (shutdown stops retrying): while the shutdown event is set, that is
\* from a stop() call until start() clears it, the state does not become
\* Connecting or Connected, no connect attempt is started and a backoff wait
\* counts no further second.
C13_ShutdownStopsRetrying ==
    [][(shutdown_event /\ shutdown_event') =>
        /\ state' \in {CONNECTING, CONNECTED} => state' = state
        /\ connection_task'.pc = "connecting" => connection_task.pc = "connecting"
        /\ (connection_task.pc = "retry" /\ connection_task'.pc = "retry") =>
                connection_task'.remaining = connection_task.remaining]_vars

\* line 171: the 30 s timer of a waiting call fires, and the caller it has
\* timed out resumes: neither is postponed forever.
ReturnFair ==
    /\ WF_vars(\E c \in 1..budget : command_timer(c))
    /\ WF_vars(\E c \in 1..budget : command_timed_out(c))

\* the manager with start(), stop() and send_command in any order, the
\* timers of the waiting calls running
SpecReturn == Init /\ [][Next]_vars /\ ReturnFair

\* C14 (send_command always returns): every send_command call that waits
\* for its response returns, with a payload or with none, whatever start(),
\* stop() and the connection do meanwhile: a call that has returned never
\* waits again, and again and again no call is waiting. A call returns a
\* payload only when a frame has been received, so it returns none when no
\* socket is ever established.
C14_AlwaysReturns ==
    /\ []<>(\A c \in 1..MaxCalls : calls[c].ret # "waiting")
    /\ [][\A c \in 1..MaxCalls :
            /\ calls[c].ret \in {"value", "none"} => calls'[c].ret = calls[c].ret
            /\ calls[c].ret = "waiting" => calls'[c].ret \in {"waiting", "value", "none"}
         ]_vars
    /\ [](\A c \in 1..MaxCalls :
            /\ calls[c].ret \in {"idle", "waiting", "value", "none"}
            /\ calls[c].ret = "value" => (responses # <<>> /\ sent # <<>>))

\* a call made while no connection was ever started has returned none
C14_Witness ==
    /\ calls[1].ret = "none"
    /\ calls[1].why = "timeout"
    /\ connection_task.pc = "none"
    /\ sent = <<>>
    /\ responses = <<>>

InitBlank == Init0(ShortConfig, MaxCalls, "blanks")

\* the manager with start(), stop() and send_command in any order, the
\* return of the blank calls recorded
SpecBlank == InitBlank /\ [][Next]_vars

\* C15 (blank commands have no effect): a send_command call whose command
\* is empty or all whitespace returns none at once and leaves the command
\* queue, the correlation queue, the connection state, the error-dedup
\* state and everything else of the manager as they were, and invokes no
\* callback.
C15_BlankNoEffect ==
    [][send_command_blank =>
        /\ obs'.blank = "none"
        /\ UNCHANGED ManagerState
        /\ cb_error' = NoErrorCb
        /\ cb_state' = NoStateCb]_vars

\* a blank command has returned while a call waits on a live connection
C15_Witness ==
    /\ obs.blank = "none"
    /\ state = CONNECTED
    /\ pending_responses # <<>>
    /\ command_queue # <<>>
    /\ calls[1].ret = "waiting"

\* C16 (response notification): every frame the receiver loop decodes is
\* passed to on_response, once and after the frames decoded before it,
\* whether or not a future is queued, and nothing else invokes on_response;
\* a future that is resolved is the oldest of the queue and gets the
\* payload on_response has just been invoked with.
C16_ResponseNotification ==
    [][/\ receiver_recv => responses' = Append(responses, Resp(Head(wire)))
       /\ responses' # responses => receiver_recv
       /\ \A c \in 1..RunCalls :
            (c <= budget /\ calls[c].fut # "result" /\ calls'[c].fut = "result") =>
                /\ receiver_recv
                /\ c = Head(pending_responses)
                /\ calls'[c].heard
                /\ calls'[c].val = responses'[Len(responses')]
      ]_vars

\* two frames have been passed on in the order they arrived: one that
\* resolved the waiting call, and one that found the queue empty
C16_Witness ==
    /\ responses = <<1, 2>>
    /\ calls[1].ret = "value"
    /\ calls[1].val = 1
    /\ calls[2].why = "closed"

\* C17 (state notification): on_state_change is invoked on every change of
\* the state, with the new state, and once for every second of a backoff
\* wait, with the seconds that remain; the state it is passed is the
\* manager's state at that moment, and it is passed a countdown only with
\* Disconnected, during a backoff wait.
C17_StateNotification ==
    /\ [](cb_state # NoStateCb =>
            /\ cb_state.state = state
            /\ cb_state.has_countdown =>
                    /\ state = DISCONNECTED
                    /\ connection_task.pc = "retry"
                    /\ cb_state.countdown = connection_task.remaining
                    /\ cb_state.countdown > 0)
    /\ [][/\ state' # state => (cb_state' # NoStateCb /\ cb_state'.state = state')
          /\ (/\ connection_task'.pc = "retry"
              /\ connection_task.pc = "retry" => connection_task'.remaining
                                                    # connection_task.remaining) =>
                cb_state' = [state |-> DISCONNECTED, has_countdown |-> TRUE,
                             countdown |-> connection_task'.remaining]
         ]_vars

\* the callback of the second tick of a two-second backoff wait
C17_Witness ==
    /\ cb_state = [state |-> DISCONNECTED, has_countdown |-> TRUE, countdown |-> 1]
    /\ connection_task.pc = "retry"
    /\ retry_delay = 2
    /\ state = DISCONNECTED

\* the round trip of a frame: decode_message on the two parts of the frame
\* of javascript returns the prefix followed by javascript, and type 3
RoundTrip ==
    (codec.op = "decode_message" /\ codec.of = "frame") =>
        /\ ~codec.out.err
        /\ codec.out.payload = CMD_PREFIX \o codec.javascript
        /\ codec.out.msg_type = 3

\* C18 as stated (codec round trip): encode makes a frame of every command
\* string s, and decode_message on the frame's 8-byte header and its
\* payload yields the payload "CMD:65535:" followed by s and the type 3.
C18_RoundTripAsStated ==
    /\ codec.op = "encode_command" => ~codec.out.err
    /\ RoundTrip

\* C18 (codec round trip): encode makes a frame of every command string s
\* but those that hold a lone surrogate code point, on which it fails with
\* ProtocolError; decode_message on the frame's 8-byte header and its
\* payload yields the payload "CMD:65535:" followed by s and the type 3,
\* also when s holds or ends with NUL characters.
C18_RoundTrip ==
    /\ codec.op = "encode_command" =>
            (codec.out.err <=>
                \E i \in DOMAIN codec.javascript :
                    codec.javascript[i] \in 55296..57343)
    /\ RoundTrip

\* the round trip of a string that ends with a NUL character
C18_Witness ==
    /\ codec.op = "decode_message"
    /\ codec.of = "frame"
    /\ codec.javascript = <<8364, 0>>
    /\ codec.payload = <<67, 77, 68, 58, 54, 53, 53, 51, 53, 58, 226, 130, 172, 0, 0>>
    /\ codec.out.payload = <<67, 77, 68, 58, 54, 53, 53, 51, 53, 58, 8364, 0>>

\* the number of bytes of the UTF-8 form of a string
RECURSIVE Utf8Size(_)
Utf8Size(str) ==
    IF str = <<>> THEN 0
    ELSE (IF Head(str) < 128 THEN 1
          ELSE IF Head(str) < 2048 THEN 2
          ELSE IF Head(str) < 65536 THEN 3 ELSE 4) + Utf8Size(Tail(str))

\* C19 (header validation): decode_header fails with ProtocolError on every
\* input shorter than 8 bytes; on the 8-byte header of encode(s) it returns
\* the length and the type, the length being the byte count of the frame's
\* payload, which is that of the prefix, the command and one NUL, and the
\* type being 3.
C19_HeaderValidation ==
    codec.op = "decode_header" =>
        /\ Len(codec.header) < 8 => codec.out.err
        /\ codec.of = "frame" =>
                /\ Len(codec.header) = 8
                /\ ~codec.out.err
                /\ codec.out.length = Len(codec.payload)
                /\ codec.out.length = 10 + Utf8Size(codec.javascript) + 1
                /\ codec.out.msg_type = 3

\* the header of the frame of a four-byte character
C19_Witness ==
    /\ codec.op = "decode_header"
    /\ codec.of = "frame"
    /\ codec.javascript = <<128512>>
    /\ codec.header = <<15, 0, 0, 0, 3, 0, 0, 0>>
    /\ codec.out.length = 15

\* C20 (length integrity): decode_message fails with ProtocolError whenever
\* the byte count of the payload differs from the length field of the
\* header, and returns a Message only when the two are equal.
C20_LengthIntegrity ==
    codec.op = "decode_message" =>
        /\ (/\ Len(codec.header) >= 8
            /\ Len(codec.payload) # codec.header[1] + 256 * codec.header[2]
                                      + 65536 * codec.header[3]
                                      + 16777216 * codec.header[4]) =>
                codec.out.err
        /\ ~codec.out.err =>
                /\ Len(codec.header) >= 8
                /\ Len(codec.payload) = codec.header[1] + 256 * codec.header[2]
                                          + 65536 * codec.header[3]
                                          + 16777216 * codec.header[4]

\* a payload one byte shorter than its header says is refused
C20_Witness ==
    /\ codec.op = "decode_message"
    /\ codec.header = <<4, 0, 0, 0, 3, 0, 0, 0>>
    /\ codec.payload = <<97, 97, 97>>
    /\ codec.out.err

\* ------------------------------------------------------- the terminal app
\* the characters of the submitted inputs: a slash, a hash, a space, a line
\* feed and a letter
InputChars == {47, 35, 32, 10, 97}

Inputs == UNION {[1..n -> InputChars] : n \in 0..MaxInputLen}

\* the user submits an input
submit ==
    /\ app.op = "none"
    /\ \E value \in Inputs : app' = on_command_input_submitted(value)
    /\ UNCHANGED <<ManagerVars, codec>>

\* the handler has returned
submit_return ==
    /\ app.op # "none"
    /\ app' = NoSubmit
    /\ UNCHANGED <<ManagerVars, codec>>

NextApp ==
    \/ submit
    \/ submit_return

InitApp == Init0(ShortConfig, 0, "none")

\* the inputs submitted to the terminal app, one after another
SpecApp == InitApp /\ [][NextApp]_vars

\* C22 (comment filtering): the text the app passes to send_command has no
\* line whose first non-blank characters are // or #, the comment lines of
\* the input are echoed, and nothing is sent when every line of the input
\* is a comment.
C22_CommentFiltering ==
    app.op = "submitted" =>
        /\ app.sends =>
                \A i \in DOMAIN SplitLines(app.text) :
                    LET line == AppStrip(SplitLines(app.text)[i]) IN
                    ~(\/ (Len(line) >= 2 /\ line[1] = 47 /\ line[2] = 47)
                      \/ (Len(line) >= 1 /\ line[1] = 35))
        /\ (\A i \in DOMAIN SplitLines(AppStrip(app.value)) :
                LET line == AppStrip(SplitLines(AppStrip(app.value))[i]) IN
                \/ (Len(line) >= 2 /\ line[1] = 47 /\ line[2] = 47)
                \/ (Len(line) >= 1 /\ line[1] = 35)) => ~app.sends

\* C21 (command queuing during disconnect): a command in the command queue
\* stays there, in its place, through every step that is not the sender
\* loop's: a failed connect attempt, a disconnect, a backoff wait, a stop();
\* only the running sender loop of a connection takes it, the oldest first,
\* and it writes the command to the socket unless the write raises.
C21_QueuedWhileDisconnected ==
    [][/\ command_queue' # command_queue =>
            \/ /\ command_queue' = Append(command_queue, ncalls')
               /\ ncalls' = ncalls + 1
            \/ /\ command_queue # <<>>
               /\ command_queue' = Tail(command_queue)
               /\ sender_task \in {"running", "dropping"}
               /\ state = CONNECTED
               /\ writer = "open"
               /\ \/ sent' = Append(sent, Head(command_queue))
                  \/ sender_task' = "failed" /\ cb_error' # NoErrorCb
       /\ sent' # sent =>
            /\ command_queue # <<>>
            /\ sent' = Append(sent, Head(command_queue))
      ]_vars

\* a command queued while the manager was Disconnected has outlived the
\* close that failed its future, and has been transmitted on the connection
\* made afterwards
C21_Witness ==
    /\ sent = <<1>>
    /\ command_queue = <<>>
    /\ calls[1].why = "closed"
    /\ state = CONNECTED
    /\ sender_task = "running"

\* C23 (end-to-end correlation across reconnects): the remote answering
\* every command it receives once and in order, a send_command call that
\* returns a payload returns the response to its own command, whatever
\* failed connect attempts, disconnects and timeouts came in between.
C23_EndToEndCorrelation ==
    \A c \in 1..budget :
        calls[c].ret = "value" => calls[c].val = Resp(c)

\* the place of call c in the queue q
Place(q, c) == CHOOSE i \in DOMAIN q : q[i] = c

\* C24 (atomic lockstep append): a send_command call appends its command
\* to the command queue and its future to the correlation queue in one
\* step, with no step of another call, of the sender or of the receiver
\* loop in between; no call is queued twice; and two calls that are in
\* both queues are in the same order in both.
C24_AtomicAppend ==
    /\ [][/\ Len(command_queue') > Len(command_queue) =>
                /\ command_queue' = Append(command_queue, ncalls')
                /\ pending_responses' = Append(pending_responses, ncalls')
                /\ ncalls' = ncalls + 1
          /\ Len(pending_responses') > Len(pending_responses) =>
                /\ command_queue' = Append(command_queue, ncalls')
                /\ pending_responses' = Append(pending_responses, ncalls')
         ]_vars
    /\ [](\A i, j \in DOMAIN command_queue :
                command_queue[i] = command_queue[j] => i = j)
    /\ [](\A i, j \in DOMAIN pending_responses :
                pending_responses[i] = pending_responses[j] => i = j)
    /\ [](\A c, e \in Range(command_queue) \cap Range(pending_responses) :
                Place(command_queue, c) < Place(command_queue, e)
                    <=> Place(pending_responses, c) < Place(pending_responses, e))

\* two calls wait at once, their commands and their futures queued in the
\* order of the calls
C24_Witness ==
    /\ command_queue = <<1, 2>>
    /\ pending_responses = <<1, 2>>
    /\ calls[1].ret = "waiting"
    /\ calls[2].ret = "waiting"
    /\ state = CONNECTED
    /\ sender_task = "running"
    /\ receiver_task = "running"

\* a loop task that exists and has not ended
TaskLive(t) == t \in {"running", "dropping", "cancelling"}

\* C25 (loop ownership): a sender or receiver loop that has not ended exists
\* only while the state is Connected and the socket is held; the two loops
\* are created together, by the connection loop on entering Connected, and
\* only when no loop of an earlier connection is still alive; when one of
\* them has ended the connection loop cancels the other; and both have
\* ended before the socket is closed and before the next connect attempt
\* starts.
C25_LoopOwnership ==
    /\ [](TaskLive(sender_task) \/ TaskLive(receiver_task)
            => state = CONNECTED /\ writer = "open")
    /\ [][ /\ (TaskLive(sender_task') /\ ~TaskLive(sender_task))
               \/ (TaskLive(receiver_task') /\ ~TaskLive(receiver_task)) =>
                /\ connection_task.pc = "connecting"
                /\ state' = CONNECTED
                /\ ~TaskLive(sender_task) /\ ~TaskLive(receiver_task)
                /\ sender_task' = "running" /\ receiver_task' = "running"
           /\ connection_task.pc = "wait" /\ connection_task'.pc = "cancelwait" =>
                /\ TaskDone(sender_task) # TaskDone(receiver_task)
                /\ TaskDone(sender_task)
                        => receiver_task' \in {"cancelling", "cancelled"}
                /\ TaskDone(receiver_task)
                        => sender_task' \in {"cancelling", "dropping", "cancelled"}
           /\ (\/ writer = "open" /\ writer' = "none"
               \/ connection_task.pc # "closing" /\ connection_task'.pc = "closing"
               \/ stop_pc # "closing" /\ stop_pc' = "closing") =>
                /\ TaskDone(sender_task) /\ TaskDone(receiver_task)
           /\ connection_task.pc # "connecting"
                    /\ connection_task'.pc = "connecting" =>
                /\ ~TaskLive(sender_task) /\ ~TaskLive(receiver_task)
                /\ writer = "none"
          ]_vars

\* the receiver loop ended first, the sender loop was cancelled and has
\* ended, and the connection loop has closed the socket and waits to retry
C25_Witness ==
    /\ connection_task.pc = "retry"
    /\ receiver_task = "done"
    /\ sender_task = "cancelled"
    /\ writer = "none"
    /\ state = DISCONNECTED

\* stop() has returned and start() has not been called since (line 127
\* clears the shutdown event)
StopReturned == stop_pc = "idle" /\ shutdown_event

\* C26 (socket and state agree): in every reachable state, Connected
\* implies that the manager holds a socket and Disconnected that it holds
\* none; and once stop() has returned, whatever the connection task was
\* doing when it was called, no socket is held and the state is Disconnected.
C26_SocketStateAgree ==
    /\ state = CONNECTED => writer = "open"
    /\ state = DISCONNECTED => writer = "none"
    /\ StopReturned =>
            /\ writer = "none"
            /\ state = DISCONNECTED
            /\ ConnTerminal
            /\ ~TaskLive(sender_task) /\ ~TaskLive(receiver_task)

\* stop() was called on a connection that had transmitted a command, and
\* has returned
C26_Witness ==
    /\ StopReturned
    /\ sent = <<1>>
    /\ writer = "none"
    /\ state = DISCONNECTED

\* C27 (dedup reset on connect): every step that enters Connected clears
\* the last error message and the repeat counter, and the first error
\* notification after an entry into Connected carries the message
\* unchanged with is_repeat false, also when the message is the one
\* notified last before the connect.
C27_DedupReset ==
    /\ [][state' = CONNECTED /\ state # CONNECTED =>
                last_error_msg' = NoMsg /\ error_count' = 0]_vars
    /\ [](cb_error # NoErrorCb /\ obs.runc = 1 /\ obs.run > 1 =>
                cb_error = [text |-> <<obs.msg>>, is_repeat |-> FALSE])

\* a connect attempt is refused, the next one succeeds, the remote closes
\* the stream, and the first attempt to reconnect is refused again: the
\* same message, notified as a first one
C27_Witness ==
    /\ cb_error = [text |-> <<MsgConnRefused>>, is_repeat |-> FALSE]
    /\ obs.msg = MsgConnRefused
    /\ obs.run = 2
    /\ obs.runc = 1

\* C28 (unsolicited message): a frame decoded while the correlation queue
\* is empty makes one on_response invocation and nothing else: the command
\* queue, the correlation queue, the connection state, the dedup state and
\* every call are as before and no other callback fires. The payload is
\* not kept: a call gets a payload only in the step that decodes the frame
\* carrying it, and only when its future is the oldest of the queue.
C28_Unsolicited ==
    [][/\ responses' # responses /\ pending_responses = <<>> =>
            /\ Len(responses') = Len(responses) + 1
            /\ pending_responses' = <<>>
            /\ UNCHANGED <<command_queue, state, last_error_msg, error_count,
                           calls, writer, retry_delay>>
            /\ cb_error' = NoErrorCb
            /\ cb_state' = NoStateCb
       /\ \A c \in 1..budget :
            calls'[c].ret = "value" /\ calls[c].ret # "value" =>
                /\ pending_responses # <<>>
                /\ Head(pending_responses) = c
                /\ responses' = Append(responses, calls'[c].val)
      ]_vars

\* the first call was failed by a refused connect attempt; its command was
\* transmitted after the connect and answered while no future was queued;
\* the second call, made later, still waits
C28_Witness ==
    /\ calls[1].ret = "none"
    /\ calls[1].why = "closed"
    /\ sent = <<1>>
    /\ responses = <<Resp(1)>>
    /\ calls[2].ret = "waiting"
    /\ pending_responses = <<2>>
    /\ command_queue = <<2>>

\* C29 (late response after a timeout): a future that has a result keeps
\* it; the step that times a call out leaves its future in the correlation
\* queue; and once the command of a timed-out call has been written to the
\* socket, the frame that takes the call's future from the queue is the
\* response to that command, and is delivered to no call.
C29_LateResponse ==
    [][\A c \in 1..budget :
        /\ calls[c].fut = "result" =>
                calls'[c].fut = "result" /\ calls'[c].val = calls[c].val
        /\ calls[c].why # "timeout" /\ calls'[c].why = "timeout" =>
                /\ pending_responses' = pending_responses
                /\ c \in Range(pending_responses)
        /\ (/\ responses' # responses
            /\ pending_responses # <<>>
            /\ Head(pending_responses) = c
            /\ calls[c].why = "timeout"
            /\ c \in Range(wire)) =>
                /\ pending_responses' = Tail(pending_responses)
                /\ calls' = calls
                /\ Head(wire) = c
      ]_vars

\* C30 (backoff countdown): a backoff wait with the delay d begins with
\* on_state_change(Disconnected, d); every tick of one second that does not
\* end the wait lowers the countdown by one and reports it, so that d,
\* d-1, ..., 1 are reported in this order; every countdown r reported has
\* 0 < r <= d; and unless the shutdown event is set the next connect
\* attempt starts only from the countdown 1, by the d-th tick.
C30_BackoffCountdown ==
    /\ [](connection_task.pc = "retry" =>
            /\ connection_task.remaining > 0
            /\ connection_task.remaining <= retry_delay)
    /\ [](cb_state # NoStateCb /\ cb_state.has_countdown =>
            /\ cb_state.state = DISCONNECTED
            /\ connection_task.pc = "retry"
            /\ cb_state.countdown = connection_task.remaining)
    /\ [][/\ (connection_task.pc # "retry" /\ connection_task'.pc = "retry") =>
                /\ connection_task'.remaining = retry_delay
                /\ retry_delay' = retry_delay
                /\ cb_state' = [state |-> DISCONNECTED, has_countdown |-> TRUE,
                                countdown |-> retry_delay]
          /\ (/\ connection_task.pc = "retry"
              /\ connection_task'.pc = "retry"
              /\ connection_task' # connection_task) =>
                /\ connection_task'.remaining = connection_task.remaining - 1
                /\ retry_delay' = retry_delay
                /\ cb_state' = [state |-> DISCONNECTED, has_countdown |-> TRUE,
                                countdown |-> connection_task.remaining - 1]
          /\ (/\ connection_task.pc = "retry"
              /\ connection_task'.pc = "connecting") =>
                /\ connection_task.remaining = 1
                /\ ~shutdown_event
          /\ (/\ connection_task.pc = "retry"
              /\ connection_task'.pc \notin {"retry", "connecting"}) =>
                shutdown_event'
         ]_vars

\* the last countdown of the third wait in a row, of eight seconds
C30_Witness ==
    /\ connection_task.pc = "retry"
    /\ retry_delay = 8
    /\ connection_task.remaining = 1
    /\ cb_state = [state |-> DISCONNECTED, has_countdown |-> TRUE, countdown |-> 1]
    /\ ~shutdown_event

====
